---- MODULE Spec2Model ----
(***************************************************************************)
(* A model of gofinance's cash-flow engine (cash_flow.go): dated cash      *)
(* flows, the calendar-exact year distance yearsBetween, present value,    *)
(* net present value, the in-place Sort and the IRR solver.                *)
(*                                                                         *)
(* Numbers.  The library computes in float64.  The model computes in a    *)
(* binary floating-point format of the same kind at reduced width: PBITS  *)
(* significand bits, exponents within -EXPMAX .. EXPMAX, round to nearest *)
(* (ties to even), gradual underflow to 0, overflow to +-Inf, and NaN.    *)
(* What float64 does at 2^53, 1e308 and 5e-324 the model does at 2^PBITS, *)
(* 2^EXPMAX and 2^-EXPMAX.  Signed zeros are not distinguished (Go's ==   *)
(* does not distinguish them either).                                      *)
(***************************************************************************)
EXTENDS Integers, Sequences, FiniteSets, TLC

VARIABLES
    cashFlows,        \* the caller's CashFlows slice
    pc,               \* where the caller is: "idle", inside IRR, or "done"
    ordered,          \* IRR's private sorted copy
    upperBoundRate,   \* IRR's local upperBoundRate
    npvLowerBound,    \* IRR's local npvLowerBound
    npvUpperBound,    \* IRR's local npvUpperBound
    result,           \* what the last IRR call returned
    trace,            \* what the running IRR call has done so far
    before,           \* the caller's slice as it was when the last call began
    lastOp,           \* the last operation the caller ran to completion
    npvCall,          \* arguments and result of the last NPV call
    yb,               \* arguments and result of a yearsBetween call
    pv,               \* arguments and result of a YearsFrom and PresentValue call
    rc,               \* two Rates and the results of their methods
    st,               \* period strings and what StringToTime and NewCashFlow return
    workers           \* the concurrent calls of NPV and IRR on the caller's slice

vars == <<cashFlows, pc, ordered, upperBoundRate, npvLowerBound, npvUpperBound,
          result, trace, before, lastOp, npvCall, yb, pv, rc, st, workers>>

\* the variables that hold single calls of the functions added to the model later
calls == <<pv, rc, st, workers>>

-----------------------------------------------------------------------------
(* Bounds of the model.                                                    *)

PBITS == 12       \* significand bits of the model's floats (float64: 53)
EXPMAX == 20      \* finite floats lie in 2^-EXPMAX .. 2^EXPMAX (float64: 1024)
YearSpan == 7     \* instants lie in the years 2019 .. 2019 + YearSpan
MaxLen == 3       \* longest cash-flow collection

-----------------------------------------------------------------------------
(* float64, at the model's width.                                          *)

Max(a, b) == IF a >= b THEN a ELSE b
Min(a, b) == IF a <= b THEN a ELSE b
Abs(n) == IF n < 0 THEN 0 - n ELSE n
Pow2(n) == 2 ^ n

RECURSIVE BitLen(_)
BitLen(n) == IF n = 0 THEN 0 ELSE 1 + BitLen(n \div 2)

\* A finite float is m * 2^e with m odd (or m = 0, e = 0): one record per value.
Fin(m, e) == [k |-> "fin", m |-> m, e |-> e]
Zero == Fin(0, 0)
NaN == [k |-> "nan", m |-> 0, e |-> 0]
PosInf == [k |-> "inf", m |-> 1, e |-> 0]
NegInf == [k |-> "inf", m |-> -1, e |-> 0]

IsNaN(x) == x.k = "nan"
IsInf(x) == x.k = "inf"
IsFin(x) == x.k = "fin"
Sgn(x) == IF x.m > 0 THEN 1 ELSE IF x.m < 0 THEN -1 ELSE 0
InfOf(s) == IF s < 0 THEN NegInf ELSE PosInf

RECURSIVE Canon(_, _)
Canon(m, e) ==
    IF m = 0 THEN Zero
    ELSE IF m % 2 = 0 THEN Canon(m \div 2, e + 1)
    ELSE Fin(m, e)

\* The float nearest to the exact value m * 2^e.
FRound(m, e) ==
    IF m = 0 THEN Zero
    ELSE LET a == Abs(m)
             s == IF m < 0 THEN -1 ELSE 1
             bl == BitLen(a)
             drop == Max(Max(bl - PBITS, (0 - EXPMAX) - e), 0)
             q == IF drop = 0 THEN a
                  ELSE IF drop > bl THEN 0
                  ELSE LET d == Pow2(drop)
                           t == a \div d
                           r == a % d
                           h == d \div 2
                       IN  IF r > h \/ (r = h /\ t % 2 = 1) THEN t + 1 ELSE t
             e2 == e + drop
         IN  IF q = 0 THEN Zero
             ELSE IF BitLen(q) + e2 > EXPMAX THEN InfOf(s)
             ELSE Canon(s * q, e2)

\* float64(n) of an integer n.
FInt(n) == FRound(n, 0)

\* The position of the leading bit of a finite nonzero float.
Top(x) == BitLen(Abs(x.m)) + x.e

FNeg(x) == IF IsNaN(x) THEN NaN ELSE [x EXCEPT !.m = 0 - x.m]

\* x + y
FAdd(x, y) ==
    IF IsNaN(x) \/ IsNaN(y) THEN NaN
    ELSE IF IsInf(x) /\ IsInf(y) THEN (IF x.m = y.m THEN x ELSE NaN)
    ELSE IF IsInf(x) THEN x
    ELSE IF IsInf(y) THEN y
    ELSE IF x.m = 0 THEN y
    ELSE IF y.m = 0 THEN x
    ELSE IF Top(x) - Top(y) > PBITS + 2 THEN x
    ELSE IF Top(y) - Top(x) > PBITS + 2 THEN y
    ELSE LET e0 == Min(x.e, y.e)
         IN  FRound(x.m * Pow2(x.e - e0) + y.m * Pow2(y.e - e0), e0)

\* x * y
FMul(x, y) ==
    IF IsNaN(x) \/ IsNaN(y) THEN NaN
    ELSE IF IsInf(x) \/ IsInf(y)
         THEN (IF x.m = 0 \/ y.m = 0 THEN NaN ELSE InfOf(Sgn(x) * Sgn(y)))
    ELSE FRound(x.m * y.m, x.e + y.e)

\* x / y
FDiv(x, y) ==
    IF IsNaN(x) \/ IsNaN(y) THEN NaN
    ELSE IF IsInf(x) THEN (IF IsInf(y) THEN NaN
                           ELSE InfOf(Sgn(x) * (IF y.m < 0 THEN -1 ELSE 1)))
    ELSE IF IsInf(y) THEN Zero
    ELSE IF y.m = 0 THEN (IF x.m = 0 THEN NaN ELSE InfOf(Sgn(x)))
    ELSE IF x.m = 0 THEN Zero
    ELSE LET a == Abs(x.m)
             b == Abs(y.m)
             sh == Max(PBITS + 2 + BitLen(b) - BitLen(a), 0)
             n == a * Pow2(sh)
             q == n \div b
             sticky == IF n % b = 0 THEN 0 ELSE 1
         IN  FRound(Sgn(x) * Sgn(y) * (2 * q + sticky), x.e - y.e - sh - 1)

\* x < y and x > y; false when either is NaN.
FLt(x, y) ==
    IF IsNaN(x) \/ IsNaN(y) THEN FALSE
    ELSE IF IsInf(x) \/ IsInf(y)
         THEN (IF IsInf(x) /\ IsInf(y) THEN x.m < y.m
               ELSE IF IsInf(x) THEN x.m < 0 ELSE y.m > 0)
    ELSE IF Sgn(x) # Sgn(y) THEN Sgn(x) < Sgn(y)
    ELSE IF x.m = 0 THEN FALSE
    ELSE IF Top(x) # Top(y)
         THEN (IF x.m > 0 THEN Top(x) < Top(y) ELSE Top(x) > Top(y))
    ELSE LET e0 == Min(x.e, y.e)
         IN  x.m * Pow2(x.e - e0) < y.m * Pow2(y.e - e0)

FGt(x, y) == FLt(y, x)

\* The float nearest to the decimal literal n / d.
FLit(n, d) == FDiv(FInt(n), FInt(d))

RECURSIVE ExpSeries(_, _, _, _)
\* sum of term * r^i / (n (n+1) ...), in units of 2^-15
ExpSeries(r, term, n, acc) ==
    IF term = 0 THEN acc
    ELSE ExpSeries(r, (term * r) \div (n * 32768), n + 1, acc + term)

\* math.Exp(x): e^x = 2^k * e^r with r = x - k ln 2 in [0, ln 2).
FExp(x) ==
    IF IsNaN(x) THEN NaN
    ELSE IF IsInf(x) THEN (IF x.m > 0 THEN PosInf ELSE Zero)
    ELSE IF x.m = 0 THEN Fin(1, 0)
    ELSE IF Top(x) > 6 THEN (IF x.m > 0 THEN PosInf ELSE Zero)
    ELSE LET ln2 == 22713
             fx == IF x.e + 15 >= 0 THEN x.m * Pow2(x.e + 15)
                   ELSE x.m \div Pow2(0 - (x.e + 15))
             k == fx \div ln2
             r == fx - k * ln2
         IN  FRound(ExpSeries(r, 32768, 1, 0), k - 15)

FAbs(x) == IF x.m < 0 THEN FNeg(x) ELSE x
One == Fin(1, 0)
Half == Fin(1, -1)

RECURSIVE isqrt(_, _, _)
\* the largest q with q * q <= n, found bit by bit from 2^b down
isqrt(n, q, b) ==
    IF b < 0 THEN q
    ELSE IF (q + Pow2(b)) * (q + Pow2(b)) <= n THEN isqrt(n, q + Pow2(b), b - 1)
    ELSE isqrt(n, q, b - 1)

\* the root of n * 2^e, e even, from the integer root q of n
sqrtFrom(n, q, e) == FRound(2 * q + (IF q * q = n THEN 0 ELSE 1), (e \div 2) - 1)

\* the root of m * 2^e, e even, with m scaled up by 2^(2 s)
sqrtScaled(m, e, s) == sqrtFrom(m * Pow2(2 * s), isqrt(m * Pow2(2 * s), 0, 15), e - 2 * s)

\* math.Sqrt(x)
FSqrt(x) ==
    IF IsNaN(x) \/ x.m < 0 THEN NaN
    ELSE IF IsInf(x) \/ x.m = 0 THEN x
    ELSE IF x.e % 2 = 0 THEN sqrtScaled(x.m, x.e, (29 - BitLen(x.m)) \div 2)
    ELSE sqrtScaled(2 * x.m, x.e - 1, (28 - BitLen(x.m)) \div 2)

RECURSIVE atanhSeries(_, _, _, _, _), atanhNext(_, _, _, _, _, _)
\* z + z^3/3 + z^5/5 + ..., until a term no longer changes the sum
atanhSeries(z2, pw, n, acc, budget) ==
    IF budget = 0 THEN acc
    ELSE atanhNext(z2, pw, n, acc, FAdd(acc, FDiv(pw, FInt(n))), budget)

\* one term added: sum is acc with the term pw / n
atanhNext(z2, pw, n, acc, sum, budget) ==
    IF sum = acc THEN acc
    ELSE atanhSeries(z2, FMul(pw, z2), n + 2, sum, budget - 1)

\* ln of f * 2^k, f in [3/4, 3/2): k ln 2 + 2 atanh((f - 1) / (f + 1))
logFrom(k, z) ==
    FAdd(FMul(FInt(k), FLit(22713, 32768)),
         FMul(FInt(2), atanhSeries(FMul(z, z), z, 1, Zero, 16)))

logScaled(x, k) ==
    logFrom(k, FDiv(FAdd(Fin(x.m, x.e - k), FNeg(One)), FAdd(Fin(x.m, x.e - k), One)))

\* math.Log(x)
FLog(x) ==
    IF IsNaN(x) \/ x.m < 0 THEN NaN
    ELSE IF IsInf(x) THEN PosInf
    ELSE IF x.m = 0 THEN NegInf
    ELSE logScaled(x, IF 2 * x.m >= 3 * Pow2(BitLen(x.m) - 1) THEN Top(x) ELSE Top(x) - 1)

\* whether the finite float y is an odd integer
isOddInt(y) == y.m # 0 /\ y.e = 0

\* the integer part of a finite y >= 0
floorOf(y) ==
    IF y.e >= 0 THEN y.m * Pow2(y.e)
    ELSE IF 0 - y.e > 30 THEN 0
    ELSE y.m \div Pow2(0 - y.e)

RECURSIVE powLoop(_, _, _, _, _), powSquared(_, _, _, _, _)
\* math.Pow's loop: repeated squaring of x1 * 2^xe, the result kept as a1 * 2^ae
powLoop(i, x1, xe, a1, ae) ==
    IF i = 0 THEN [a1 |-> a1, ae |-> ae]
    ELSE IF xe < -4096 \/ 4096 < xe THEN [a1 |-> a1, ae |-> ae + xe]
    ELSE powSquared(i \div 2, FMul(x1, x1), 2 * xe,
                    IF i % 2 = 1 THEN FMul(a1, x1) ELSE a1,
                    IF i % 2 = 1 THEN ae + xe ELSE ae)

powSquared(i, x1, xe, a1, ae) ==
    IF FLt(x1, Half) THEN powLoop(i, FAdd(x1, x1), xe - 1, a1, ae)
    ELSE powLoop(i, x1, xe, a1, ae)

\* Ldexp(a1, ae), after 1/a1 and -ae for a negative y
powResult(p, negative) ==
    IF negative THEN FRound(FDiv(One, p.a1).m, FDiv(One, p.a1).e - p.ae)
    ELSE FRound(p.a1.m, p.a1.e + p.ae)

\* a1 := 1.0, or Exp(yf * Log(x)) for a fractional part yf, then the loop
powFrom(x, y, yi, yf) ==
    powResult(powLoop(yi, Fin(x.m, x.e - Top(x)), Top(x),
                      IF yf.m = 0 THEN One ELSE FExp(FMul(yf, FLog(x))), 0),
              y.m < 0)

\* yi and yf are the integer and the fractional part of |y|; a yf above 0.5
\* becomes yf - 1 with yi + 1
powParts(x, y, yi, yf) ==
    IF yf.m # 0 /\ x.m < 0 THEN NaN
    ELSE powFrom(x, y, IF FGt(yf, Half) THEN yi + 1 ELSE yi,
                 IF FGt(yf, Half) THEN FAdd(yf, FNeg(One)) ELSE yf)

\* math.Pow(x, y); a zero x is +0
FPow(x, y) ==
    IF (IsFin(y) /\ y.m = 0) \/ x = One THEN One
    ELSE IF y = One THEN x
    ELSE IF IsNaN(x) \/ IsNaN(y) THEN NaN
    ELSE IF IsFin(x) /\ x.m = 0 THEN (IF y.m < 0 THEN PosInf ELSE Zero)
    ELSE IF IsInf(y)
         THEN (IF x = Fin(-1, 0) THEN One
               ELSE IF FLt(FAbs(x), One) = (y.m > 0) THEN Zero
               ELSE PosInf)
    ELSE IF IsInf(x)
         THEN (IF y.m < 0 THEN Zero
               ELSE IF x.m < 0 /\ isOddInt(y) THEN NegInf
               ELSE PosInf)
    ELSE IF y = Half THEN FSqrt(x)
    ELSE IF y = FNeg(Half) THEN FDiv(One, FSqrt(x))
    ELSE powParts(x, y, floorOf(FAbs(y)), FAdd(FAbs(y), FNeg(FInt(floorOf(FAbs(y))))))

-----------------------------------------------------------------------------
(* time.Time in UTC, to the hour: [y, mo, d, h].                           *)

\* the time package's own leap-year rule
isLeap(y) == (y % 4 = 0 /\ y % 100 # 0) \/ y % 400 = 0

daysIn(y, mo) ==
    IF mo = 2 THEN (IF isLeap(y) THEN 29 ELSE 28)
    ELSE IF mo \in {4, 6, 9, 11} THEN 30 ELSE 31

RECURSIVE daysBefore(_, _)
\* days of year y before month mo
daysBefore(y, mo) == IF mo = 1 THEN 0 ELSE daysBefore(y, mo - 1) + daysIn(y, mo - 1)

\* hours since 0001-01-01 00:00 UTC
AbsHour(t) ==
    LET y1 == t.y - 1
        days == 365 * y1 + (y1 \div 4) - (y1 \div 100) + (y1 \div 400)
                + daysBefore(t.y, t.mo) + (t.d - 1)
    IN  days * 24 + t.h

Equal(a, b) == AbsHour(a) = AbsHour(b)
Before(a, b) == AbsHour(a) < AbsHour(b)
After(a, b) == AbsHour(a) > AbsHour(b)

\* time.Date(y, mo, d, h, ...): a day past the end of the month runs into the next
Date(y, mo, d, h) ==
    IF d > daysIn(y, mo)
    THEN (IF mo = 12 THEN [y |-> y + 1, mo |-> 1, d |-> d - daysIn(y, mo), h |-> h]
          ELSE [y |-> y, mo |-> mo + 1, d |-> d - daysIn(y, mo), h |-> h])
    ELSE [y |-> y, mo |-> mo, d |-> d, h |-> h]

\* t.AddDate(years, 0, 0)
AddDate(t, years) == Date(t.y + years, t.mo, t.d, t.h)

\* b.Sub(a), a Duration, in hours; .Hours() converts it to float64
Sub(b, a) == AbsHour(b) - AbsHour(a)
Hours(dur) == FInt(dur)

-----------------------------------------------------------------------------
(* cash_flow.go                                                            *)

\* A faulty variant of daysInYear: every year is a common year.
daysInYearCommon(y) == 365

daysInYear(y) == IF (y % 4 = 0 /\ y % 100 # 0) \/ y % 400 = 0 THEN 366 ELSE 365

RECURSIVE wholeYears(_, _, _)
\* the loop of yearsBetween: [a, fullYears] when it breaks
wholeYears(a, b, fullYears) ==
    LET next == AddDate(a, 1)
    IN  IF ~After(next, b)
        THEN wholeYears(next, b, FAdd(fullYears, FInt(1)))
        ELSE [a |-> a, fullYears |-> fullYears]

\* A faulty variant of partialYear: the part-year is measured against the year
\* of b instead of the year the last whole-year step reached.
partialYearOfEnd(a, b, fullYears, sign) ==
    IF Equal(a, b) THEN FMul(sign, fullYears)
    ELSE FMul(sign, FAdd(fullYears,
                         FDiv(FDiv(Hours(Sub(b, a)), FInt(24)), FInt(daysInYear(b.y)))))

\* lines 90-97: the part of a year left after the whole years, and the sign
partialYear(a, b, fullYears, sign) ==
    IF Equal(a, b) THEN FMul(sign, fullYears)
    ELSE FMul(sign, FAdd(fullYears,
                         FDiv(FDiv(Hours(Sub(b, a)), FInt(24)), FInt(daysInYear(a.y)))))

\* lines 78-97, once a and b are in order: w is what the loop of whole years left
orderedYears(w, b, sign) == partialYear(w.a, b, w.fullYears, sign)

\* A faulty variant of yearsBetween: the arguments are not put in order.
yearsBetweenNoSwap(a0, b0) ==
    IF Equal(a0, b0) THEN Zero
    ELSE orderedYears(wholeYears(a0, b0, Zero), b0, FInt(1))

yearsBetween(a0, b0) ==
    IF Equal(a0, b0) THEN Zero
    ELSE IF Before(b0, a0) THEN orderedYears(wholeYears(b0, a0, Zero), a0, FInt(-1))
    ELSE orderedYears(wholeYears(a0, b0, Zero), b0, FInt(1))

\* A CashFlow is [Value, Date]; CashFlows is a sequence of them.
\* RateAnnualContinuous{Value: v}, the continuous rate IRR searches over.
RateContinuous(v) == [type |-> "continuous", Value |-> v]

RateAnnualPercentage(v, p) == [type |-> "percentage", Value |-> v, PeriodsPerYear |-> p]
RateEffective(v, p) == [type |-> "effective", Value |-> v, PeriodsPerYear |-> p]

\* A faulty variant of DiscountFactor: the periods are added to the years.
DiscountFactorSum(r, years) ==
    IF r.type = "continuous" THEN FExp(FAdd(r.Value, FNeg(years)))
    ELSE IF r.type = "percentage"
         THEN FPow(FAdd(One, FDiv(r.Value, r.PeriodsPerYear)),
                   FAdd(FNeg(r.PeriodsPerYear), years))
    ELSE FPow(FAdd(One, r.Value), FAdd(FNeg(r.PeriodsPerYear), years))

\* what math.Pow raises, by the variant of r: 1+r.Value/r.PeriodsPerYear or 1+r.Value
periodFactor(r) ==
    IF r.type = "percentage" THEN FAdd(One, FDiv(r.Value, r.PeriodsPerYear))
    ELSE FAdd(One, r.Value)

\* r.DiscountFactor(years), by the variant of r:
\*   math.Exp(r.Value * -years)
\*   math.Pow(1+r.Value/r.PeriodsPerYear, -r.PeriodsPerYear*years)
\*   math.Pow(1+r.Value, -r.PeriodsPerYear*years)
DiscountFactor(r, years) ==
    IF r.type = "continuous" THEN FExp(FMul(r.Value, FNeg(years)))
    ELSE FPow(periodFactor(r), FMul(FNeg(r.PeriodsPerYear), years))

\* r.RateAnnualEffective(), by the variant of r
RateAnnualEffective(r) ==
    IF r.type = "continuous" THEN FAdd(FExp(r.Value), FNeg(One))
    ELSE FAdd(FPow(periodFactor(r), r.PeriodsPerYear), FNeg(One))

\* A faulty variant of ToContinuous: the logarithm of the rate, not of the factor.
ToContinuousOfRate(r) ==
    IF r.type = "continuous" THEN r.Value
    ELSE FLog(RateAnnualEffective(r))

\* r.RateContinuous(), by the variant of r
ToContinuous(r) ==
    IF r.type = "continuous" THEN r.Value
    ELSE FLog(FAdd(One, RateAnnualEffective(r)))

\* A faulty variant of YearsFrom: the absolute distance, whichever comes first.
YearsFromAbsolute(cf, valuationDate) ==
    IF Before(cf.Date, valuationDate) THEN yearsBetween(cf.Date, valuationDate)
    ELSE yearsBetween(valuationDate, cf.Date)

YearsFrom(cf, valuationDate) == yearsBetween(valuationDate, cf.Date)

PresentValue(cf, r, valuationDate) ==
    FMul(cf.Value, DiscountFactor(r, YearsFrom(cf, valuationDate)))

\* A faulty variant of npvLoop: npv = instead of npv +=.
npvLoopOverwrite(cfs, r, valuationDate, i, npv) ==
    IF i > Len(cfs) THEN npv
    ELSE PresentValue(cfs[Len(cfs)], r, valuationDate)

RECURSIVE npvLoop(_, _, _, _, _)
\* npv += cf.PresentValue(r, valuationDate), from the i-th flow on
npvLoop(cfs, r, valuationDate, i, npv) ==
    IF i > Len(cfs) THEN npv
    ELSE npvLoop(cfs, r, valuationDate, i + 1,
                 FAdd(npv, PresentValue(cfs[i], r, valuationDate)))

NPV(cfs, r, valuationDate) == npvLoop(cfs, r, valuationDate, 1, Zero)

\* the less function Sort hands to sort.Slice
less(cfs, i, j) == Before(cfs[i].Date, cfs[j].Date)

IsSorted(cfs) == \A i, j \in 1 .. Len(cfs) : i < j => ~less(cfs, j, i)

Reorder(cfs, p) == [i \in 1 .. Len(cfs) |-> cfs[p[i]]]

\* A faulty variant of SortOutcomes: the Dates are sorted, the Values stay put.
SortDatesOnly(cfs) ==
    {[i \in 1 .. Len(cfs) |-> [Value |-> cfs[i].Value, Date |-> t[i].Date]] :
        t \in {u \in {Reorder(cfs, p) : p \in Permutations(1 .. Len(cfs))} : IsSorted(u)}}

\* A faulty variant of SortOutcomes: any reordering, sorted or not.
AnyOrder(cfs) == {Reorder(cfs, p) : p \in Permutations(1 .. Len(cfs))}

\* What sort.Slice may leave in the slice: the elements, reordered so that less
\* holds of no later-earlier pair.  sort.Slice is documented as not stable, and
\* which order elements that compare equal end in depends on the Go release and
\* on the length of the slice, so every sorted reordering is a possible outcome.
SortOutcomes(cfs) ==
    {t \in {Reorder(cfs, p) : p \in Permutations(1 .. Len(cfs))} : IsSorted(t)}

\* IRR's constants
lowerBoundRate == FLit(-999999, 1000000)
initialUpperBoundRate == FLit(10, 100)
ceiling == FInt(1000)

\* IRR's closure npv, over the sorted copy and its first flow's Date
npvAt(cfs, r) == NPV(cfs, RateContinuous(r), cfs[1].Date)

\* npvLowerBound*npvUpperBound > 0
NoSignChange(lo, hi) == FGt(FMul(lo, hi), Zero)

-----------------------------------------------------------------------------
(* rootfinding.Brent(npv, a, b, 12): a library outside the repository.     *)
(* It is modelled by what a bracketing root finder does: it refuses an     *)
(* interval whose end values have the same sign, and otherwise closes in   *)
(* on a sign change of f until the interval cannot be halved any more, or  *)
(* gives up when its iteration budget is spent.                            *)

BrentIterations == 64

midpoint(a, b) == FDiv(FAdd(a, b), FInt(2))

RECURSIVE bisect(_, _, _, _, _), bisectAt(_, _, _, _, _, _, _)
\* one halving: mid is the midpoint of a and b, fm the value of npv there
bisectAt(cfs, a, sa, b, n, mid, fm) ==
    IF mid = a \/ mid = b THEN [err |-> FALSE, root |-> b]
    ELSE IF n = 0 \/ IsNaN(fm) THEN [err |-> TRUE, root |-> Zero]
    ELSE IF fm.m = 0 THEN [err |-> FALSE, root |-> mid]
    ELSE IF Sgn(fm) = sa THEN bisect(cfs, mid, sa, b, n - 1)
    ELSE bisect(cfs, a, sa, mid, n - 1)

bisect(cfs, a, sa, b, n) ==
    bisectAt(cfs, a, sa, b, n, midpoint(a, b), npvAt(cfs, midpoint(a, b)))

\* fa and fb are the values of npv at a and b
brentFrom(cfs, a, fa, b, fb) ==
    IF IsNaN(fa) \/ IsNaN(fb) \/ NoSignChange(fa, fb)
    THEN [err |-> TRUE, root |-> Zero]
    ELSE IF fa.m = 0 THEN [err |-> FALSE, root |-> a]
    ELSE IF fb.m = 0 THEN [err |-> FALSE, root |-> b]
    ELSE bisect(cfs, a, Sgn(fa), b, BrentIterations)

Brent(cfs, a, b) == brentFrom(cfs, a, npvAt(cfs, a), b, npvAt(cfs, b))

-----------------------------------------------------------------------------
(* time.Time to the nanosecond, as StringToTime needs it: [day, ms, ns],    *)
(* the days since 0001-01-01 UTC, the milliseconds of the day and the       *)
(* nanoseconds of the millisecond.  A Duration has the same three parts.    *)

NsPerMs == 1000000
MsPerSecond == 1000
MsPerMinute == 60000
MsPerHour == 3600000
MsPerDay == 86400000

\* floor(a / b) and the matching remainder, for b > 0 and a of either sign
FloorDiv(a, b) == IF a >= 0 THEN a \div b ELSE 0 - ((b - 1 - a) \div b)
FloorMod(a, b) == a - b * FloorDiv(a, b)

\* days from 0001-01-01 to the day time.Date(y, mo, d, ...) names; a month past
\* December and a day 0 are normalised as time.Date normalises them
DayNumber(y, mo, d) ==
    (365 * (y + ((mo - 1) \div 12) - 1))
        + FloorDiv(y + ((mo - 1) \div 12) - 1, 4)
        - FloorDiv(y + ((mo - 1) \div 12) - 1, 100)
        + FloorDiv(y + ((mo - 1) \div 12) - 1, 400)
        + daysBefore(y + ((mo - 1) \div 12), ((mo - 1) % 12) + 1) + d - 1

\* carries nanoseconds into milliseconds and milliseconds into days
Carry(day, ms, ns) ==
    [day |-> day + FloorDiv(ms + FloorDiv(ns, NsPerMs), MsPerDay),
     ms |-> FloorMod(ms + FloorDiv(ns, NsPerMs), MsPerDay),
     ns |-> FloorMod(ns, NsPerMs)]

\* time.Date(y, mo, d, hh, mi, ss, nsec, time.UTC)
TimeDate(y, mo, d, hh, mi, ss, nsec) ==
    Carry(DayNumber(y, mo, d), ((hh * 60 + mi) * 60 + ss) * MsPerSecond, nsec)

\* time.Time{}
ZeroTime == [day |-> 0, ms |-> 0, ns |-> 0]

\* t.Before(u)
TimeBefore(t, u) ==
    \/ t.day < u.day
    \/ t.day = u.day /\ t.ms < u.ms
    \/ t.day = u.day /\ t.ms = u.ms /\ t.ns < u.ns

\* the largest Duration, 2^63 - 1 nanoseconds
MaxDuration == [day |-> 106751, ms |-> 85636854, ns |-> 775807]

\* the time from t to u, exactly
Elapsed(u, t) == Carry(u.day - t.day, u.ms - t.ms, u.ns - t.ns)

\* u.Sub(t) for t not after u: a Duration, so no more than MaxDuration
TimeSub(u, t) ==
    IF TimeBefore(MaxDuration, Elapsed(u, t)) THEN MaxDuration ELSE Elapsed(u, t)

\* d / 2 for a Duration d that is not negative
Halve(d) ==
    [day |-> d.day \div 2,
     ms |-> (d.ms + ((d.day % 2) * MsPerDay)) \div 2,
     ns |-> (d.ns + (((d.ms + ((d.day % 2) * MsPerDay)) % 2) * NsPerMs)) \div 2]

\* t.Add(d)
TimeAdd(t, d) == Carry(t.day + d.day, t.ms + d.ms, t.ns + d.ns)

\* unit - time.Nanosecond, for a unit of a whole number of milliseconds
LessNanosecond(unitMs) == [day |-> 0, ms |-> unitMs - 1, ns |-> NsPerMs - 1]

\* t.Truncate(unit), for a unit that divides the day
Truncate(t, unitMs) == [t EXCEPT !.ms = t.ms - (t.ms % unitMs), !.ns = 0]

-----------------------------------------------------------------------------
(* time.ParseInLocation(layout, value, time.UTC) for the layouts of        *)
(* sliceResolutionToLayouts.  A layout is the sequence of its elements.     *)

Digits == "0123456789"

charAt(s, i) == SubSeq(s, i, i)
isDigit(s, i) == i <= Len(s) /\ \E k \in 1..10 : charAt(s, i) = charAt(Digits, k)
digit(s, i) == (CHOOSE k \in 1..10 : charAt(s, i) = charAt(Digits, k)) - 1
commaOrPeriod(s, i) == i <= Len(s) /\ charAt(s, i) \in {".", ","}

RECURSIVE digitsValue(_)
digitsValue(s) ==
    IF Len(s) = 0 THEN 0
    ELSE (digitsValue(SubSeq(s, 1, Len(s) - 1)) * 10) + digit(s, Len(s))

allDigits(s) == \A i \in 1..Len(s) : isDigit(s, i)

\* atoi: an optional sign, then digits only
atoi(s) ==
    IF Len(s) > 0 /\ charAt(s, 1) = "-"
    THEN [ok |-> allDigits(Tail(s)), x |-> 0 - digitsValue(Tail(s))]
    ELSE IF Len(s) > 0 /\ charAt(s, 1) = "+"
    THEN [ok |-> allDigits(Tail(s)), x |-> digitsValue(Tail(s))]
    ELSE [ok |-> allDigits(s), x |-> IF allDigits(s) THEN digitsValue(s) ELSE 0]

RECURSIVE Pow10(_)
Pow10(n) == IF n <= 0 THEN 1 ELSE 10 * Pow10(n - 1)

\* what Parse has read so far, and what is left of the value
NewParse(value) ==
    [ok |-> TRUE, value |-> value, year |-> 0, month |-> 1, day |-> 1,
     hour |-> 0, min |-> 0, sec |-> 0, nsec |-> 0]

Bad(p) == [p EXCEPT !.ok = FALSE]

RECURSIVE cutspace(_)
cutspace(s) == IF Len(s) > 0 /\ charAt(s, 1) = " " THEN cutspace(Tail(s)) ELSE s

\* skip: a literal of the layout; a space stands for a run of spaces
skip(p, lit) ==
    IF lit = " "
    THEN IF Len(p.value) > 0 /\ charAt(p.value, 1) # " " THEN Bad(p)
         ELSE [p EXCEPT !.value = cutspace(p.value)]
    ELSE IF Len(p.value) = 0 \/ charAt(p.value, 1) # lit THEN Bad(p)
         ELSE [p EXCEPT !.value = Tail(p.value)]

\* stores a number read into a field, if it is in the field's range
inRange(p, field, n, rest, lo, hi) ==
    IF n < lo \/ n > hi THEN Bad(p)
    ELSE [p EXCEPT ![field] = n, !.value = rest]

\* getnum: one or two digits, two when fixed
getnum(p, field, fixed, lo, hi) ==
    IF ~isDigit(p.value, 1) THEN Bad(p)
    ELSE IF ~isDigit(p.value, 2)
    THEN IF fixed THEN Bad(p)
         ELSE inRange(p, field, digit(p.value, 1), Tail(p.value), lo, hi)
    ELSE inRange(p, field, digit(p.value, 1) * 10 + digit(p.value, 2),
                 SubSeq(p.value, 3, Len(p.value)), lo, hi)

\* "2006": four digits
longYear(p) ==
    IF Len(p.value) < 4 \/ ~allDigits(SubSeq(p.value, 1, 4)) THEN Bad(p)
    ELSE [p EXCEPT !.year = digitsValue(SubSeq(p.value, 1, 4)),
                   !.value = SubSeq(p.value, 5, Len(p.value))]

nanoseconds(p, a, nbytes, taken) ==
    IF ~a.ok \/ a.x < 0 THEN Bad(p)
    ELSE [p EXCEPT !.nsec = a.x * Pow10(10 - nbytes),
                   !.value = SubSeq(p.value, taken + 1, Len(p.value))]

\* parseNanoseconds: a comma or period and the digits after it, nine at most
parseNanoseconds(p, nbytes) ==
    IF ~commaOrPeriod(p.value, 1) THEN Bad(p)
    ELSE nanoseconds(p, atoi(SubSeq(p.value, 2, Min(nbytes, 10))), Min(nbytes, 10), nbytes)

RECURSIVE digitsEnd(_, _)
\* the last position of the run of digits that position n of s is in
digitsEnd(s, n) == IF isDigit(s, n + 1) THEN digitsEnd(s, n + 1) ELSE n

\* after the seconds: a fraction in the value that the layout does not name
secondFraction(p, nextElem) ==
    IF p.ok /\ commaOrPeriod(p.value, 1) /\ isDigit(p.value, 2) /\ nextElem # ".000"
    THEN parseNanoseconds(p, digitsEnd(p.value, 2))
    ELSE p

\* ".000": a period or comma and exactly three digits
fracSecond(p) == IF Len(p.value) < 4 THEN Bad(p) ELSE parseNanoseconds(p, 4)

parseElement(p, elem, nextElem) ==
    CASE elem = "2006" -> longYear(p)
      [] elem = "01" -> getnum(p, "month", TRUE, 1, 12)
      [] elem = "02" -> getnum(p, "day", TRUE, 0, 99)
      [] elem = "15" -> getnum(p, "hour", FALSE, 0, 23)
      [] elem = "04" -> getnum(p, "min", TRUE, 0, 59)
      [] elem = "05" -> secondFraction(getnum(p, "sec", TRUE, 0, 59), nextElem)
      [] elem = ".000" -> fracSecond(p)
      [] OTHER -> skip(p, elem)

\* the end of the layout: nothing may be left, and the day must be in its month
parseEnd(p) ==
    IF Len(p.value) > 0 \/ p.day < 1 \/ p.day > daysIn(p.year, p.month) THEN Bad(p)
    ELSE p

RECURSIVE parseFrom(_, _, _)
parseFrom(layout, i, p) ==
    IF ~p.ok THEN p
    ELSE IF i > Len(layout) THEN parseEnd(p)
    ELSE parseFrom(layout, i + 1,
                   parseElement(p, layout[i], IF i < Len(layout) THEN layout[i + 1] ELSE ""))

ParseInLocation(layout, value) == parseFrom(layout, 1, NewParse(value))

\* the Time that Parse returns for what it has read
timeParsed(p) == TimeDate(p.year, p.month, p.day, p.hour, p.min, p.sec, p.nsec)

-----------------------------------------------------------------------------
(* StringToTime and NewCashFlow.                                           *)

\* "2006-01-02 15:04:05.000" with sep between the parts of the date
milliLayout(sep) ==
    <<"2006", sep, "01", sep, "02", " ", "15", ":", "04", ":", "05", ".000">>

\* how many elements of milliLayout a layout of the resolution has
layoutLen(resolution) ==
    CASE resolution = "milliRes" -> 12
      [] resolution = "secondRes" -> 11
      [] resolution = "minuteRes" -> 9
      [] resolution = "hourRes" -> 7
      [] resolution = "dayRes" -> 5
      [] resolution = "monthRes" -> 3
      [] resolution = "yearRes" -> 1

resolutionToLayouts(resolution) ==
    IF resolution = "yearRes"
    THEN [resolution |-> resolution, layouts |-> <<<<"2006">>>>]
    ELSE [resolution |-> resolution,
          layouts |-> [i \in 1..3 |->
                         SubSeq(milliLayout(<<"-", "/", ".">>[i]), 1, layoutLen(resolution))]]

sliceResolutionToLayouts ==
    <<resolutionToLayouts("milliRes"), resolutionToLayouts("secondRes"),
      resolutionToLayouts("minuteRes"), resolutionToLayouts("hourRes"),
      resolutionToLayouts("dayRes"), resolutionToLayouts("monthRes"),
      resolutionToLayouts("yearRes")>>

midOfStartEnd(start, end) == TimeAdd(start, Halve(TimeSub(end, start)))

\* the period that starts at start and lasts the unit: its midpoint
midOfUnit(start, unitMs) ==
    midOfStartEnd(start, TimeAdd(start, LessNanosecond(unitMs)))

\* the switch of parseStringToMidTime
midOfResolution(resolution, p) ==
    CASE resolution = "yearRes" ->
           midOfStartEnd(TimeDate(p.year, 1, 1, 0, 0, 0, 0),
                         TimeDate(p.year, 12, 31, 23, 59, 59, 999999999))
      [] resolution = "monthRes" ->
           midOfStartEnd(TimeDate(p.year, p.month, 1, 0, 0, 0, 0),
                         TimeDate(p.year, p.month + 1, 0, 23, 59, 59, 999999999))
      [] resolution = "dayRes" ->
           midOfUnit(TimeDate(p.year, p.month, p.day, 0, 0, 0, 0), MsPerDay)
      [] resolution = "hourRes" -> midOfUnit(Truncate(timeParsed(p), MsPerHour), MsPerHour)
      [] resolution = "minuteRes" ->
           midOfUnit(Truncate(timeParsed(p), MsPerMinute), MsPerMinute)
      [] resolution = "secondRes" ->
           midOfUnit(Truncate(timeParsed(p), MsPerSecond), MsPerSecond)
      [] resolution = "milliRes" -> midOfUnit(Truncate(timeParsed(p), 1), 1)

Nil == "nil"

\* one layout tried: the midpoint if it parses the input, else the next layout
tryLayout(input, i, j, p, next) ==
    IF p.ok
    THEN [mid |-> midOfResolution(sliceResolutionToLayouts[i].resolution, p), err |-> Nil]
    ELSE next

RECURSIVE parseLoop(_, _, _)
\* the two loops of parseStringToMidTime, from layout j of resolution i on
parseLoop(input, i, j) ==
    IF i > Len(sliceResolutionToLayouts)
    THEN [mid |-> ZeroTime, err |-> "unsupported time format: " \o input]
    ELSE IF j > Len(sliceResolutionToLayouts[i].layouts) THEN parseLoop(input, i + 1, 1)
    ELSE tryLayout(input, i, j,
                   ParseInLocation(sliceResolutionToLayouts[i].layouts[j], input),
                   parseLoop(input, i, j + 1))

parseStringToMidTime(input) == parseLoop(input, 1, 1)

Failed(err) == [time |-> ZeroTime, err |-> err]

\* A faulty variant of midOfTwo: the error of the second period is dropped.
midOfTwoFirstChecked(m1, m2) ==
    IF m1.err # Nil THEN Failed(m1.err)
    ELSE IF m2.err # Nil THEN [time |-> m1.mid, err |-> Nil]
    ELSE IF TimeBefore(m1.mid, m2.mid)
    THEN [time |-> midOfStartEnd(m1.mid, m2.mid), err |-> Nil]
    ELSE [time |-> midOfStartEnd(m2.mid, m1.mid), err |-> Nil]

\* the two-period branch of StringToTime
midOfTwo(m1, m2) ==
    IF m1.err # Nil THEN Failed(m1.err)
    ELSE IF m2.err # Nil THEN Failed(m2.err)
    ELSE IF TimeBefore(m1.mid, m2.mid)
    THEN [time |-> midOfStartEnd(m1.mid, m2.mid), err |-> Nil]
    ELSE [time |-> midOfStartEnd(m2.mid, m1.mid), err |-> Nil]

midOfOne(m) == IF m.err # Nil THEN Failed(m.err) ELSE [time |-> m.mid, err |-> Nil]

StringToTime(periods) ==
    IF Len(periods) = 0 \/ Len(periods) > 2
    THEN Failed("StringToTime requires 1 or 2 period strings")
    ELSE IF Len(periods) = 1 THEN midOfOne(parseStringToMidTime(periods[1]))
    ELSE midOfTwo(parseStringToMidTime(periods[1]), parseStringToMidTime(periods[2]))

\* CashFlow{}
ZeroCashFlow == [Value |-> Zero, Date |-> ZeroTime]

cashFlowAt(value, date) ==
    IF date.err # Nil THEN [cashFlow |-> ZeroCashFlow, err |-> date.err]
    ELSE [cashFlow |-> [Value |-> value, Date |-> date.time], err |-> Nil]

NewCashFlow(value, timeStr) == cashFlowAt(value, StringToTime(timeStr))

-----------------------------------------------------------------------------
(* A caller holding one collection: it sorts it and asks for its IRR.      *)

D0 == [y |-> 2020, mo |-> 1, d |-> 1, h |-> 0]
FlowDates == {D0, Date(2020, 1, 2, 0), AddDate(D0, 1)}

\* a positive amount so small that the product of two NPVs of it underflows
TinyValue == Fin(1, 0 - (EXPMAX \div 2) - 2)
FlowValues == {FInt(-100), FInt(-10), FInt(10), FInt(110), TinyValue}
Flows == [Value : FlowValues, Date : FlowDates]

BoundedSeq(S, n) == UNION {[1 .. k -> S] : k \in 0 .. n}

NoResult == [kind |-> "none", rate |-> Zero]
NoTrace == [sorts |-> 0, npvs |-> 0, doublings |-> 0, brent |-> 0]
NoNPVCall == [r |-> Zero, d |-> D0, out |-> Zero, done |-> FALSE]
NoYB == [a |-> D0, b |-> D0, res |-> Zero, pc |-> "none"]
NoPV == [cf |-> [Value |-> Zero, Date |-> D0], r |-> Zero, v |-> D0,
         years |-> Zero, out |-> Zero, pc |-> "none"]
NoRC == [r |-> RateContinuous(Zero), other |-> RateContinuous(Zero), years |-> Zero,
         df |-> Zero, effective |-> Zero, continuous |-> Zero,
         otherEffective |-> Zero, otherContinuous |-> Zero, pc |-> "none"]
NoST == [value |-> Zero, periods |-> <<>>, out |-> Failed(Nil), reversed |-> Failed(Nil),
         single |-> <<>>, cf |-> [cashFlow |-> ZeroCashFlow, err |-> Nil], pc |-> "none"]
\* the goroutines that call NPV and IRR at the same time
Procs == {1, 2}
NoWorker == [op |-> "none", r |-> Zero, d |-> D0, pc |-> "none", i |-> 1, npv |-> Zero,
             ordered |-> <<>>, out |-> NoResult, mixed |-> FALSE]
NoWorkers == [p \in Procs |-> NoWorker]
NoCalls == pv = NoPV /\ rc = NoRC /\ st = NoST /\ workers = NoWorkers

Init ==
    /\ cashFlows \in BoundedSeq(Flows, MaxLen)
    /\ pc = "idle" /\ ordered = <<>>
    /\ upperBoundRate = Zero /\ npvLowerBound = Zero /\ npvUpperBound = Zero
    /\ result = NoResult /\ trace = NoTrace /\ before = cashFlows
    /\ lastOp = "none" /\ npvCall = NoNPVCall /\ yb = NoYB /\ NoCalls

\* cfs.Sort(): in place
Sort ==
    /\ pc = "idle"
    /\ cashFlows' \in SortOutcomes(cashFlows)
    /\ before' = cashFlows
    /\ lastOp' = "Sort"
    /\ UNCHANGED <<pc, ordered, upperBoundRate, npvLowerBound, npvUpperBound,
                   result, trace, npvCall, yb, calls>>

\* A faulty variant of IRREmpty: the length is looked at after the copy is sorted.
IRREmptyAfterSort ==
    /\ pc = "idle"
    /\ Len(cashFlows) = 0
    /\ ordered' \in SortOutcomes(cashFlows)
    /\ result' = [kind |-> "empty", rate |-> Zero]
    /\ trace' = [NoTrace EXCEPT !.sorts = 1]
    /\ before' = cashFlows
    /\ lastOp' = "IRR"
    /\ pc' = "done"
    /\ UNCHANGED <<cashFlows, upperBoundRate, npvLowerBound, npvUpperBound, npvCall, yb, calls>>

\* IRR, lines 161-163: the empty collection
IRREmpty ==
    /\ pc = "idle"
    /\ Len(cashFlows) = 0
    /\ result' = [kind |-> "empty", rate |-> Zero]
    /\ trace' = NoTrace
    /\ before' = cashFlows
    /\ lastOp' = "IRR"
    /\ pc' = "done"
    /\ UNCHANGED <<cashFlows, ordered, upperBoundRate, npvLowerBound, npvUpperBound,
                   npvCall, yb, calls>>

\* A faulty variant of IRRSortCopy: the caller's slice itself is sorted.
IRRSortInPlace ==
    /\ pc = "idle"
    /\ Len(cashFlows) # 0
    /\ cashFlows' \in SortOutcomes(cashFlows)
    /\ ordered' = cashFlows'
    /\ trace' = [NoTrace EXCEPT !.sorts = 1]
    /\ result' = NoResult
    /\ before' = cashFlows
    /\ lastOp' = "IRR"
    /\ pc' = "sorted"
    /\ UNCHANGED <<upperBoundRate, npvLowerBound, npvUpperBound, npvCall, yb, calls>>

\* A faulty variant of IRRSortCopy: the copy is not sorted.
IRRCopyUnsorted ==
    /\ pc = "idle"
    /\ Len(cashFlows) # 0
    /\ ordered' = cashFlows
    /\ trace' = [NoTrace EXCEPT !.sorts = 1]
    /\ result' = NoResult
    /\ before' = cashFlows
    /\ lastOp' = "IRR"
    /\ pc' = "sorted"
    /\ UNCHANGED <<cashFlows, upperBoundRate, npvLowerBound, npvUpperBound, npvCall, yb, calls>>

\* IRR, lines 166-169: ordered := a copy of cashFlows; ordered.Sort()
IRRSortCopy ==
    /\ pc = "idle"
    /\ Len(cashFlows) # 0
    /\ ordered' \in SortOutcomes(cashFlows)
    /\ trace' = [NoTrace EXCEPT !.sorts = 1]
    /\ result' = NoResult
    /\ before' = cashFlows
    /\ lastOp' = "IRR"
    /\ pc' = "sorted"
    /\ UNCHANGED <<cashFlows, upperBoundRate, npvLowerBound, npvUpperBound, npvCall, yb, calls>>

\* IRR, lines 182-185: the first bracket
IRRBracketInit ==
    /\ pc = "sorted"
    /\ upperBoundRate' = initialUpperBoundRate
    /\ npvLowerBound' = npvAt(ordered, lowerBoundRate)
    /\ npvUpperBound' = npvAt(ordered, initialUpperBoundRate)
    /\ trace' = [trace EXCEPT !.npvs = @ + 2]
    /\ pc' = "loop"
    /\ UNCHANGED <<cashFlows, ordered, result, before, lastOp, npvCall, yb, calls>>

\* A faulty variant of Expanding: the loop condition without the ceiling.
ExpandingUnbounded == NoSignChange(npvLowerBound, npvUpperBound)

\* the loop condition of line 189
Expanding == NoSignChange(npvLowerBound, npvUpperBound) /\ FLt(upperBoundRate, ceiling)

\* IRR, lines 189-192: one turn of the loop
IRRExpand ==
    /\ pc = "loop"
    /\ Expanding
    /\ upperBoundRate' = FMul(upperBoundRate, FInt(2))
    /\ npvUpperBound' = npvAt(ordered, upperBoundRate')
    /\ trace' = [trace EXCEPT !.npvs = @ + 1, !.doublings = @ + 1]
    /\ UNCHANGED <<cashFlows, pc, ordered, npvLowerBound, result, before, lastOp,
                   npvCall, yb, calls>>

\* IRR, lines 193-195: no bracket
IRRBracketFail ==
    /\ pc = "loop"
    /\ ~Expanding
    /\ NoSignChange(npvLowerBound, npvUpperBound)
    /\ result' = [kind |-> "bracket", rate |-> Zero]
    /\ pc' = "done"
    /\ UNCHANGED <<cashFlows, ordered, upperBoundRate, npvLowerBound, npvUpperBound,
                   trace, before, lastOp, npvCall, yb, calls>>

\* IRR, lines 200-204: refinement
IRRBrent ==
    /\ pc = "loop"
    /\ ~Expanding
    /\ ~NoSignChange(npvLowerBound, npvUpperBound)
    /\ \E b \in {Brent(ordered, lowerBoundRate, upperBoundRate)} :
           result' = IF b.err THEN [kind |-> "brent", rate |-> Zero]
                     ELSE [kind |-> "ok", rate |-> b.root]
    /\ trace' = [trace EXCEPT !.brent = @ + 1]
    /\ pc' = "done"
    /\ UNCHANGED <<cashFlows, ordered, upperBoundRate, npvLowerBound, npvUpperBound,
                   before, lastOp, npvCall, yb, calls>>

\* the caller takes the result
IRRReturn ==
    /\ pc = "done"
    /\ pc' = "idle"
    /\ ordered' = <<>>
    /\ upperBoundRate' = Zero /\ npvLowerBound' = Zero /\ npvUpperBound' = Zero
    /\ result' = NoResult
    /\ trace' = NoTrace
    /\ UNCHANGED <<cashFlows, before, lastOp, npvCall, yb, calls>>

Next ==
    \/ Sort
    \/ IRREmpty
    \/ IRRSortCopy
    \/ IRRBracketInit
    \/ IRRExpand
    \/ IRRBracketFail
    \/ IRRBrent
    \/ IRRReturn

Spec == Init /\ [][Next]_vars

\* the steps of a running IRR call
IRRStep == IRRBracketInit \/ IRRExpand \/ IRRBracketFail \/ IRRBrent

\* the longest collection of the caller whose calls are followed to their end
RunningLen == 2

RunningInit == Init /\ Len(cashFlows) <= RunningLen

\* a call of IRR is running: exactly then a step of it is enabled
InCall == pc \in {"sorted", "loop"}

(* The same caller, whose running IRR call is never left waiting for ever:  *)
(* WF_vars(IRRStep), with ENABLED <<IRRStep>>_vars written as InCall.       *)
SpecRunning ==
    RunningInit /\ [][Next]_vars /\ ([]<>(~InCall) \/ []<><<IRRStep>>_vars)

\* a positive amount that is lost when added to 10, and whose square is not 0
SmallValue == Fin(1, 0 - (EXPMAX \div 2))
OrderFlows == [Value : {FInt(-10), FInt(10), SmallValue}, Date : FlowDates]

OrderInit ==
    /\ cashFlows \in BoundedSeq(OrderFlows, MaxLen)
    /\ pc = "idle" /\ ordered = <<>>
    /\ upperBoundRate = Zero /\ npvLowerBound = Zero /\ npvUpperBound = Zero
    /\ result = NoResult /\ trace = NoTrace /\ before = cashFlows
    /\ lastOp = "none" /\ npvCall = NoNPVCall /\ yb = NoYB /\ NoCalls

(* The same caller, over collections in which flows that share a Date sum   *)
(* differently in different orders.                                         *)
SpecOrder == OrderInit /\ [][Next]_vars

-----------------------------------------------------------------------------
(* yearsBetween applied to pairs of instants.                              *)

Years == 2019 .. (2019 + YearSpan)
MonthDays == {<<1, 1>>, <<2, 10>>, <<2, 28>>, <<2, 29>>, <<3, 1>>, <<3, 15>>, <<12, 31>>}
Instants ==
    {t \in [y : Years, mo : {md[1] : md \in MonthDays},
            d : {md[2] : md \in MonthDays}, h : {0, 12}] :
        <<t.mo, t.d>> \in MonthDays /\ t.d <= daysIn(t.y, t.mo)}

YBInit ==
    /\ yb \in [a : Instants, b : Instants, res : {Zero}, pc : {"in"}]
    /\ cashFlows = <<>> /\ pc = "idle" /\ ordered = <<>>
    /\ upperBoundRate = Zero /\ npvLowerBound = Zero /\ npvUpperBound = Zero
    /\ result = NoResult /\ trace = NoTrace /\ before = <<>>
    /\ lastOp = "none" /\ npvCall = NoNPVCall /\ NoCalls

YBCall ==
    /\ yb.pc = "in"
    /\ yb' = [yb EXCEPT !.res = yearsBetween(yb.a, yb.b), !.pc = "out"]
    /\ UNCHANGED <<cashFlows, pc, ordered, upperBoundRate, npvLowerBound,
                   npvUpperBound, result, trace, before, lastOp, npvCall, calls>>

YBNext == YBCall
SpecYB == YBInit /\ [][YBNext]_vars
-----------------------------------------------------------------------------
(* NPV applied to collections whose sums round.                            *)

D1 == AddDate(D0, 1)
NPVValues == {FInt(Pow2(PBITS)), FInt(0 - Pow2(PBITS)), FInt(1), FInt(110)}
NPVFlows == [Value : NPVValues, Date : {D0, D1}]
NPVRates == {Zero, initialUpperBoundRate}

NPVInit ==
    /\ cashFlows \in BoundedSeq(NPVFlows, MaxLen)
    /\ pc = "idle" /\ ordered = <<>>
    /\ upperBoundRate = Zero /\ npvLowerBound = Zero /\ npvUpperBound = Zero
    /\ result = NoResult /\ trace = NoTrace /\ before = cashFlows
    /\ lastOp = "none" /\ npvCall = NoNPVCall /\ yb = NoYB /\ NoCalls

\* cfs.NPV(r, valuationDate): reads the slice, writes nothing
NPVCall ==
    /\ \E r \in NPVRates, d \in {D0, D1} :
           npvCall' = [r |-> r, d |-> d, done |-> TRUE,
                       out |-> NPV(cashFlows, RateContinuous(r), d)]
    /\ before' = cashFlows
    /\ lastOp' = "NPV"
    /\ UNCHANGED <<cashFlows, pc, ordered, upperBoundRate, npvLowerBound,
                   npvUpperBound, result, trace, yb, calls>>

NPVNext == NPVCall
SpecNPV == NPVInit /\ [][NPVNext]_vars

-----------------------------------------------------------------------------
(* YearsFrom and PresentValue applied to one flow.                         *)

PVDates == {t \in Instants : t.y <= 2021}
PVValues == {FInt(-100), FInt(110)}

PVInit ==
    /\ pv \in [cf : [Value : PVValues, Date : PVDates], r : NPVRates, v : PVDates,
               years : {Zero}, out : {Zero}, pc : {"in"}]
    /\ cashFlows = <<>> /\ pc = "idle" /\ ordered = <<>>
    /\ upperBoundRate = Zero /\ npvLowerBound = Zero /\ npvUpperBound = Zero
    /\ result = NoResult /\ trace = NoTrace /\ before = <<>>
    /\ lastOp = "none" /\ npvCall = NoNPVCall /\ yb = NoYB /\ rc = NoRC /\ st = NoST
    /\ workers = NoWorkers

\* cf.YearsFrom(v) and cf.PresentValue(r, v)
PVCall ==
    /\ pv.pc = "in"
    /\ pv' = [pv EXCEPT !.years = YearsFrom(pv.cf, pv.v),
                        !.out = PresentValue(pv.cf, RateContinuous(pv.r), pv.v),
                        !.pc = "out"]
    /\ UNCHANGED <<cashFlows, pc, ordered, upperBoundRate, npvLowerBound,
                   npvUpperBound, result, trace, before, lastOp, npvCall, yb, rc, st, workers>>

PVNext == PVCall
SpecPV == PVInit /\ [][PVNext]_vars

-----------------------------------------------------------------------------
(* The three methods of a Rate, applied to rates of the three variants.    *)

RateValues == {FLit(5, 100), Zero, FInt(-1), FInt(16), FInt(-16),
               Fin(1, 0 - PBITS - 2), PosInf, NaN}
RatePeriods == {One, FInt(2), FInt(12), Zero, PosInf, NaN}
Rates ==
    {RateContinuous(v) : v \in RateValues}
        \cup {RateAnnualPercentage(v, p) : v \in RateValues, p \in RatePeriods}
        \cup {RateEffective(v, p) : v \in RateValues, p \in RatePeriods}
RateYears == {Zero, Half}

RateInit ==
    /\ rc \in {[NoRC EXCEPT !.r = r, !.other = o, !.years = y, !.pc = "in"] :
                 r \in Rates, o \in Rates, y \in RateYears}
    /\ cashFlows = <<>> /\ pc = "idle" /\ ordered = <<>>
    /\ upperBoundRate = Zero /\ npvLowerBound = Zero /\ npvUpperBound = Zero
    /\ result = NoResult /\ trace = NoTrace /\ before = <<>>
    /\ lastOp = "none" /\ npvCall = NoNPVCall /\ yb = NoYB /\ pv = NoPV /\ st = NoST
    /\ workers = NoWorkers

\* r.DiscountFactor(years), r.RateAnnualEffective(), r.RateContinuous(), and the
\* last two of other
RateCall ==
    /\ rc.pc = "in"
    /\ rc' = [rc EXCEPT !.df = DiscountFactor(rc.r, rc.years),
                        !.effective = RateAnnualEffective(rc.r),
                        !.continuous = ToContinuous(rc.r),
                        !.otherEffective = RateAnnualEffective(rc.other),
                        !.otherContinuous = ToContinuous(rc.other),
                        !.pc = "out"]
    /\ UNCHANGED <<cashFlows, pc, ordered, upperBoundRate, npvLowerBound,
                   npvUpperBound, result, trace, before, lastOp, npvCall, yb, pv, st, workers>>

RateNext == RateCall
SpecRate == RateInit /\ [][RateNext]_vars

-----------------------------------------------------------------------------
(* StringToTime and NewCashFlow applied to period strings.                 *)

MaxPeriods == 3

PeriodStrings ==
    {"2020", "1700", "2020-02", "2021/12", "2020.02.29", "2020-01-02 7",
     "2020/01/02 10:30:15", "2020-01-02 10:30:15.250", "2020-01-02 10:30:15.2505",
     "2021-02-29", "2020-13", "2020-01/02", ""}

Reverse(seq) == [i \in 1..Len(seq) |-> seq[Len(seq) + 1 - i]]

STInit ==
    /\ st \in {[NoST EXCEPT !.value = FInt(110), !.periods = periods, !.pc = "in"] :
                 periods \in BoundedSeq(PeriodStrings, MaxPeriods)}
    /\ cashFlows = <<>> /\ pc = "idle" /\ ordered = <<>>
    /\ upperBoundRate = Zero /\ npvLowerBound = Zero /\ npvUpperBound = Zero
    /\ result = NoResult /\ trace = NoTrace /\ before = <<>>
    /\ lastOp = "none" /\ npvCall = NoNPVCall /\ yb = NoYB /\ pv = NoPV /\ rc = NoRC
    /\ workers = NoWorkers

\* StringToTime(periods...), the same with the periods in the other order and with
\* each period alone, and NewCashFlow(value, periods...)
STCall ==
    /\ st.pc = "in"
    /\ st' = [st EXCEPT !.out = StringToTime(st.periods),
                        !.reversed = StringToTime(Reverse(st.periods)),
                        !.single = [i \in 1..Len(st.periods) |->
                                      StringToTime(<<st.periods[i]>>)],
                        !.cf = NewCashFlow(st.value, st.periods),
                        !.pc = "out"]
    /\ UNCHANGED <<cashFlows, pc, ordered, upperBoundRate, npvLowerBound,
                   npvUpperBound, result, trace, before, lastOp, npvCall, yb, pv, rc, workers>>

STNext == STCall
SpecST == STInit /\ [][STNext]_vars

-----------------------------------------------------------------------------
(* NPV and IRR called at the same time, by two goroutines, on the caller's  *)
(* slice.  A step is one read of the slice; nobody calls Sort.              *)

RECURSIVE bracketLoop(_, _, _, _), bracketDoubled(_, _, _)
\* IRR, lines 189-192, run to its end: the last upper bound and the NPV there
bracketLoop(cfs, upper, lo, hi) ==
    IF NoSignChange(lo, hi) /\ FLt(upper, ceiling)
    THEN bracketDoubled(cfs, FMul(upper, FInt(2)), lo)
    ELSE [upperBoundRate |-> upper, npvUpperBound |-> hi]

bracketDoubled(cfs, upper, lo) == bracketLoop(cfs, upper, lo, npvAt(cfs, upper))

brentResult(b) ==
    IF b.err THEN [kind |-> "brent", rate |-> Zero] ELSE [kind |-> "ok", rate |-> b.root]

\* IRR, lines 193-204
refine(cfs, lo, bracket) ==
    IF NoSignChange(lo, bracket.npvUpperBound) THEN [kind |-> "bracket", rate |-> Zero]
    ELSE brentResult(Brent(cfs, lowerBoundRate, bracket.upperBoundRate))

\* IRR, lines 182-204, for the npvLowerBound lo
bracketed(cfs, lo) ==
    refine(cfs, lo, bracketLoop(cfs, initialUpperBoundRate, lo,
                                npvAt(cfs, initialUpperBoundRate)))

\* what IRR returns once its copy is sorted
IRROfSorted(cfs) == bracketed(cfs, npvAt(cfs, lowerBoundRate))

ConcLen == 2
ConcFlows == [Value : {FInt(-100), FInt(110)}, Date : {D0, D1}]

ConcInit ==
    /\ cashFlows \in BoundedSeq(ConcFlows, ConcLen)
    /\ before = cashFlows
    /\ workers \in [Procs -> {[NoWorker EXCEPT !.op = op, !.r = initialUpperBoundRate,
                                                !.pc = "run"] : op \in {"NPV", "IRR"}}]
    /\ pc = "idle" /\ ordered = <<>>
    /\ upperBoundRate = Zero /\ npvLowerBound = Zero /\ npvUpperBound = Zero
    /\ result = NoResult /\ trace = NoTrace
    /\ lastOp = "none" /\ npvCall = NoNPVCall /\ yb = NoYB
    /\ pv = NoPV /\ rc = NoRC /\ st = NoST

\* another goroutine is in the middle of its call
OthersBusy(p) ==
    \E q \in Procs \ {p} : workers[q].pc = "run" /\ workers[q].i > 1

\* goroutine p goes on as w; the caller's other variables stay
Goes(p, w) ==
    /\ workers' = [workers EXCEPT ![p] = [w EXCEPT !.mixed = @ \/ OthersBusy(p)]]
    /\ UNCHANGED <<pc, ordered, upperBoundRate, npvLowerBound, npvUpperBound,
                   result, trace, before, lastOp, npvCall, yb, pv, rc, st>>

\* NPV, lines 149-151: one turn of the range loop
NPVAdd(p) ==
    /\ workers[p].op = "NPV" /\ workers[p].pc = "run"
    /\ workers[p].i <= Len(cashFlows)
    /\ Goes(p, [workers[p] EXCEPT
                  !.npv = FAdd(@, PresentValue(cashFlows[workers[p].i],
                                               RateContinuous(workers[p].r), workers[p].d)),
                  !.i = @ + 1])
    /\ UNCHANGED cashFlows

\* NPV, line 152
NPVReturn(p) ==
    /\ workers[p].op = "NPV" /\ workers[p].pc = "run"
    /\ workers[p].i > Len(cashFlows)
    /\ Goes(p, [workers[p] EXCEPT !.out = [kind |-> "npv", rate |-> workers[p].npv],
                                  !.pc = "done"])
    /\ UNCHANGED cashFlows

\* IRR, lines 161-163
IRRNone(p) ==
    /\ workers[p].op = "IRR" /\ workers[p].pc = "run"
    /\ Len(cashFlows) = 0
    /\ Goes(p, [workers[p] EXCEPT !.out = [kind |-> "empty", rate |-> Zero], !.pc = "done"])
    /\ UNCHANGED cashFlows

\* A faulty variant of IRRCopy: no copy is made, the caller's slice itself is sorted.
IRRCopyNone(p) ==
    /\ workers[p].op = "IRR" /\ workers[p].pc = "run"
    /\ Len(cashFlows) # 0 /\ workers[p].i <= Len(cashFlows)
    /\ cashFlows' \in SortOutcomes(cashFlows)
    /\ Goes(p, [workers[p] EXCEPT !.ordered = cashFlows', !.i = Len(cashFlows) + 1])

\* IRR, lines 166-167: copy reads one element of the caller's slice
IRRCopy(p) ==
    /\ workers[p].op = "IRR" /\ workers[p].pc = "run"
    /\ Len(cashFlows) # 0 /\ workers[p].i <= Len(cashFlows)
    /\ Goes(p, [workers[p] EXCEPT !.ordered = Append(@, cashFlows[workers[p].i]),
                                  !.i = @ + 1])
    /\ UNCHANGED cashFlows

\* IRR, lines 168-204: all of it works on the copy
IRRSolve(p) ==
    /\ workers[p].op = "IRR" /\ workers[p].pc = "run"
    /\ Len(cashFlows) # 0 /\ workers[p].i > Len(cashFlows)
    /\ \E o \in SortOutcomes(workers[p].ordered) :
           Goes(p, [workers[p] EXCEPT !.ordered = o, !.out = IRROfSorted(o), !.pc = "done"])
    /\ UNCHANGED cashFlows

ConcNext ==
    \E p \in Procs :
        \/ NPVAdd(p)
        \/ NPVReturn(p)
        \/ IRRNone(p)
        \/ IRRCopy(p)
        \/ IRRSolve(p)

SpecConc == ConcInit /\ [][ConcNext]_vars

-----------------------------------------------------------------------------
(* Properties.  What the properties speak of, in their own terms.          *)

\* ascending (non-decreasing) order of Date
Ascending(cfs) ==
    \A i, j \in 1 .. Len(cfs) : i < j => AbsHour(cfs[i].Date) <= AbsHour(cfs[j].Date)

\* the same (Value, Date) pairs, each as many times
SameFlows(s, t) ==
    /\ Len(s) = Len(t)
    /\ \A i \in 1 .. Len(s) :
           Cardinality({j \in 1 .. Len(s) : s[j] = s[i]})
               = Cardinality({j \in 1 .. Len(t) : t[j] = s[i]})

\* the flows of cfs that fall on the instant of d, in their order
OnDate(cfs, d) == SelectSeq(cfs, LAMBDA cf : Equal(cf.Date, d))

RECURSIVE InsertStable(_, _)
\* x put after every element of s that is not later than x
InsertStable(s, x) ==
    IF s = <<>> THEN <<x>>
    ELSE IF Before(x.Date, Head(s).Date) THEN <<x>> \o s
    ELSE <<Head(s)>> \o InsertStable(Tail(s), x)

RECURSIVE StableSorted(_)
\* the one stable ascending arrangement of cfs
StableSorted(cfs) ==
    IF cfs = <<>> THEN <<>>
    ELSE InsertStable(StableSorted(SubSeq(cfs, 1, Len(cfs) - 1)), cfs[Len(cfs)])

RECURSIVE SumPV(_, _, _, _)
\* the present values of the first n flows, added up from the first to the n-th
SumPV(cfs, r, d, n) ==
    IF n = 0 THEN Zero
    ELSE FAdd(SumPV(cfs, r, d, n - 1), PresentValue(cfs[n], r, d))

SumOf(cfs) == SumPV(cfs, RateContinuous(npvCall.r), npvCall.d, Len(cfs))

AllPositive(cfs) == \A i \in 1 .. Len(cfs) : FGt(cfs[i].Value, Zero)
AllNegative(cfs) == \A i \in 1 .. Len(cfs) : FLt(cfs[i].Value, Zero)

\* an outflow at t0 and an inflow one calendar year later, in either slice order
IsLoan(cfs, i, j) ==
    /\ FLt(cfs[i].Value, Zero) /\ FGt(cfs[j].Value, Zero)
    /\ cfs[j].Date = AddDate(cfs[i].Date, 1)

\* rate is ln(F/P) to within 1/100: F e^-rate' crosses P between rate - 1/100
\* and rate + 1/100
NearLogRatio(rate, P, F) ==
    /\ ~FLt(FMul(F, FExp(FNeg(FAdd(rate, FNeg(FLit(1, 100)))))), P)
    /\ ~FGt(FMul(F, FExp(FNeg(FAdd(rate, FLit(1, 100))))), P)

-----------------------------------------------------------------------------
(* C1. IRR of an empty collection fails with the empty-input error before  *)
(* anything is sorted, any NPV is evaluated, any bracket is tried or Brent *)
(* is called, and it never returns a rate.                                 *)
C1_EmptyFailsFirst ==
    (lastOp = "IRR" /\ Len(before) = 0) =>
        /\ pc \in {"done", "idle"}
        /\ result.kind # "ok"
        /\ pc = "done" => (result.kind = "empty" /\ trace = NoTrace)

C1_Witness == pc = "done" /\ lastOp = "IRR" /\ Len(cashFlows) = 0 /\ result.kind = "empty"

(* C2. For every non-empty collection whose values are all strictly        *)
(* positive or all strictly negative, IRR fails with the could-not-bracket *)
(* error and Brent is never reached.                                       *)
C2_SameSignNeverBrackets ==
    (pc = "done" /\ lastOp = "IRR" /\ Len(before) # 0
        /\ (AllPositive(before) \/ AllNegative(before))) =>
        (result.kind = "bracket" /\ trace.brent = 0)

(* C3. IRR never modifies the caller's collection: at every point of a     *)
(* call and after it, whatever the outcome, the slice holds the same flows *)
(* in the same order as when the call began.                               *)
C3_CallerSliceUntouched == lastOp = "IRR" => cashFlows = before

C3_Witness ==
    /\ pc = "done" /\ lastOp = "IRR" /\ result.kind = "ok"
    /\ ~Ascending(cashFlows) /\ Ascending(ordered) /\ cashFlows = before

(* C4. After Sort the collection is in ascending order of Date and is a    *)
(* permutation of the collection before the call, each Value still with    *)
(* its own Date.                                                           *)
C4_SortAscendingPermutation ==
    lastOp = "Sort" => (Ascending(cashFlows) /\ SameFlows(cashFlows, before))

C4_Witness ==
    /\ lastOp = "Sort" /\ Len(cashFlows) = MaxLen /\ ~Ascending(before)
    /\ \A i, j \in 1 .. Len(before) : i # j => ~Equal(before[i].Date, before[j].Date)

(* C5, as the specification states it: Sort is stable, two flows of the    *)
(* same Date keep the relative order they had.                             *)
C5_SortStable == lastOp = "Sort" => cashFlows = StableSorted(before)

(* C5, amended: Sort puts flows of different Dates in the order of their   *)
(* Dates and keeps, for every Date, the flows that fall on it; in which    *)
(* order flows of one Date end is not determined.                          *)
C5_SortKeepsEachDate ==
    lastOp = "Sort" =>
        /\ \A d \in FlowDates : SameFlows(OnDate(cashFlows, d), OnDate(before, d))
        /\ \A i, j \in 1 .. Len(cashFlows) :
               (i < j /\ ~Equal(cashFlows[i].Date, cashFlows[j].Date))
                   => Before(cashFlows[i].Date, cashFlows[j].Date)

C5_Witness ==
    /\ lastOp = "Sort" /\ Ascending(cashFlows)
    /\ cashFlows # StableSorted(before)

(* C6. yearsBetween is exactly antisymmetric, yearsBetween(a, b) =         *)
(* -yearsBetween(b, a), and zero on equal instants.                        *)
C6_Antisymmetric ==
    yb.pc = "out" =>
        /\ yb.res = FNeg(yearsBetween(yb.b, yb.a))
        /\ Equal(yb.a, yb.b) => yb.res = Zero

C6_Witness == yb.pc = "out" /\ Before(yb.b, yb.a) /\ yb.res.m < 0 /\ yb.res.e < 0

(* C7. A span of k >= 1 whole calendar years, from any instant a to        *)
(* a.AddDate(k, 0, 0), is exactly k, 29 February anchors included.         *)
C7_WholeYearsIntegral ==
    yb.pc = "out" =>
        \A k \in 1 .. YearSpan : yb.b = AddDate(yb.a, k) => yb.res = FInt(k)

C7_Witness ==
    /\ yb.pc = "out" /\ yb.a.mo = 2 /\ yb.a.d = 29
    /\ yb.b = AddDate(yb.a, 4) /\ yb.b.d = 29 /\ yb.res = FInt(4)

(* C9. For every stream of an outflow -P and an inflow +F one calendar     *)
(* year later, P > 0 and F > 0, IRR returns without error a rate equal to  *)
(* ln(F/P) within tolerance.                                               *)
C9_LoanRate ==
    (pc = "done" /\ lastOp = "IRR" /\ Len(before) = 2) =>
        \A i, j \in 1 .. 2 :
            IsLoan(before, i, j) =>
                /\ result.kind = "ok"
                /\ NearLogRatio(result.rate, FNeg(before[i].Value), before[j].Value)

(* C10, as the specification states it: NPV is the sum of the present      *)
(* values of the flows, 0 for no flows, the same in whatever order the     *)
(* flows stand, and the collection is left as it was.                      *)
C10_SumAnyOrder ==
    npvCall.done =>
        /\ npvCall.out = SumOf(cashFlows)
        /\ Len(cashFlows) = 0 => npvCall.out = Zero
        /\ \A p \in Permutations(1 .. Len(cashFlows)) :
               SumOf(Reorder(cashFlows, p)) = npvCall.out
        /\ cashFlows = before

(* C10, amended: NPV is the present values of the flows added up in slice  *)
(* order, each addition rounded; it is 0 for no flows and the collection   *)
(* is left as it was.  The order of the flows does not matter for at most  *)
(* two flows; from three flows on it can change the result by rounding.    *)
C10_SumInSliceOrder ==
    npvCall.done =>
        /\ npvCall.out = SumOf(cashFlows)
        /\ Len(cashFlows) = 0 => npvCall.out = Zero
        /\ Len(cashFlows) <= 2 =>
               \A p \in Permutations(1 .. Len(cashFlows)) :
                   SumOf(Reorder(cashFlows, p)) = npvCall.out
        /\ cashFlows = before

C10_Witness ==
    /\ npvCall.done /\ Len(cashFlows) = 3
    /\ \E p \in Permutations(1 .. Len(cashFlows)) :
           SumOf(Reorder(cashFlows, p)) # npvCall.out

FiniteRate(r) ==
    IF r.type = "continuous" THEN IsFin(r.Value)
    ELSE IsFin(r.Value) /\ IsFin(r.PeriodsPerYear)

(* C12, as the specification states it: for all three Rate variants and    *)
(* all parameter values, DiscountFactor(0) == 1.                           *)
C12_UnitAtZero == (rc.pc = "out" /\ rc.years = Zero) => rc.df = One

(* C12, amended: for all three Rate variants, DiscountFactor(0) == 1       *)
(* whenever the parameters of the rate are finite numbers.                 *)
C12_UnitAtZeroFinite ==
    (rc.pc = "out" /\ rc.years = Zero /\ FiniteRate(rc.r)) => rc.df = One

C12_Witness ==
    /\ rc.pc = "out" /\ rc.years = Zero /\ rc.r.type = "effective"
    /\ rc.r.Value = FLit(5, 100) /\ rc.r.PeriodsPerYear = FInt(12) /\ rc.df = One

\* a == b of float64: no NaN is equal to anything
FEq(a, b) == ~IsNaN(a) /\ ~IsNaN(b) /\ a = b

FMax(a, b) == IF FGt(a, b) THEN a ELSE b

\* |a - b| <= epsilon * max(1, |a|, |b|), the comparison almostEq makes
Near(a, b, epsilon) ==
    \/ a = b
    \/ /\ IsFin(a) /\ IsFin(b)
       /\ ~FGt(FAbs(FAdd(a, FNeg(b))), FMul(epsilon, FMax(One, FMax(FAbs(a), FAbs(b)))))

\* almostEq of the tests, with epsilon 2^-(PBITS - 4)
AlmostEq(a, b) == Near(a, b, Fin(1, 4 - PBITS))

\* the two rates of rc have the same one-year growth factor
SameGrowth == FEq(FAdd(One, rc.effective), FAdd(One, rc.otherEffective))

Unsupported(period) ==
    \A i \in 1..Len(sliceResolutionToLayouts) :
        \A j \in 1..Len(sliceResolutionToLayouts[i].layouts) :
            ~ParseInLocation(sliceResolutionToLayouts[i].layouts[j], period).ok

\* the arguments on which the specification says StringToTime fails
BadPeriods(periods) ==
    \/ Len(periods) = 0
    \/ Len(periods) > 2
    \/ \E i \in 1..Len(periods) : Unsupported(periods[i])

(* C14: StringToTime returns an error and the zero time when given no       *)
(* period string, more than two, or a first or second period string that   *)
(* no supported layout parses; NewCashFlow then returns that same error     *)
(* with the zero CashFlow.                                                  *)
C14_BadPeriodsFail ==
    (st.pc = "out" /\ BadPeriods(st.periods)) =>
        /\ st.out.err # Nil /\ st.out.time = ZeroTime
        /\ st.cf = [cashFlow |-> ZeroCashFlow, err |-> st.out.err]

C14_Witness ==
    /\ st.pc = "out" /\ st.periods = <<"2020", "2021-02-29">>
    /\ st.out = Failed("unsupported time format: 2021-02-29")
    /\ st.cf.err = st.out.err /\ st.cf.cashFlow = ZeroCashFlow

\* the earlier and the later of two times
Earlier(t, u) == IF TimeBefore(u, t) THEN u ELSE t
Later(t, u) == IF TimeBefore(u, t) THEN t ELSE u

\* the time halfway from t to u, for t not after u
Halfway(t, u) == TimeAdd(t, Halve(Elapsed(u, t)))

(* C15: for two parsable period strings p1 and p2, StringToTime(p1, p2)     *)
(* equals StringToTime(p2, p1) and is the midpoint m1 + (m2 - m1)/2 of the  *)
(* midpoints m1 = StringToTime(p1) and m2 = StringToTime(p2), taken from    *)
(* the earlier of the two.                                                  *)
C15_MidpointOfMidpoints ==
    (st.pc = "out" /\ Len(st.periods) = 2 /\ ~BadPeriods(st.periods)) =>
        /\ st.out = st.reversed
        /\ st.out.err = Nil
        /\ st.out.time = Halfway(Earlier(st.single[1].time, st.single[2].time),
                                 Later(st.single[1].time, st.single[2].time))

\* the days from v to t, negative when t is before v, over 365.25
Act36525(v, t) == FDiv(FDiv(Hours(Sub(t, v)), FInt(24)), FLit(36525, 100))

(* C16: YearsFrom takes a year to be 365.25 days (ACT/365.25): its result   *)
(* is the signed number of elapsed days from valuationDate to the flow's    *)
(* Date divided by 365.25, here to within four units in the last place.     *)
C16_Act36525 ==
    pv.pc = "out" => Near(pv.years, Act36525(pv.v, pv.cf.Date), Fin(1, 2 - PBITS))

\* the most doublings that keep 0.10 * 2^k below the ceiling of 1000, and one more
MaxDoublings == 14

(* C17: every IRR call terminates.  The loop that widens the bracket is     *)
(* bounded by the ceiling: from 0.10 it doubles at most 14 times whatever   *)
(* the NPV values are, and then IRR fails or hands over to the bounded      *)
(* refinement, so a call that has begun always comes to its return.         *)
C17_BoundedThenDone ==
    /\ [](trace.doublings <= MaxDoublings)
    /\ [](pc = "loop" => upperBoundRate = FMul(initialUpperBoundRate,
                                               FInt(Pow2(trace.doublings))))
    /\ InCall ~> (pc = "done")

C17_Witness ==
    /\ pc = "done" /\ trace.doublings = MaxDoublings /\ trace.brent = 0
    /\ result.kind = "bracket"

(* C19: if IRR finds no sign change before the ceiling, that is             *)
(* NPV(low) * NPV(high) > 0 for the first high of 0.10 and for every        *)
(* doubled high below 1000, which is when the loop doubles 14 times, IRR    *)
(* fails with 'could not bracket a root'; and no bracket whose upper bound  *)
(* is at or above the ceiling of 1000 is accepted or passed to refinement.  *)
C19_NoBracketAtCeiling ==
    /\ (pc = "done" /\ trace.doublings = MaxDoublings) => result.kind = "bracket"
    /\ (pc = "done" /\ result.kind \in {"ok", "brent"}) => FLt(upperBoundRate, ceiling)

\* what the call of goroutine p returns when it runs alone on the collection cfs
Alone(p, cfs) ==
    IF workers[p].op = "NPV"
    THEN {[kind |-> "npv", rate |-> NPV(cfs, RateContinuous(workers[p].r), workers[p].d)]}
    ELSE IF Len(cfs) = 0 THEN {[kind |-> "empty", rate |-> Zero]}
    ELSE {IRROfSorted(o) : o \in SortOutcomes(cfs)}

(* C18: IRR and NPV only read the caller's collection: however concurrent   *)
(* calls of IRR and NPV on one shared collection interleave, with no        *)
(* concurrent Sort, no step writes to the shared collection and each call   *)
(* returns what it returns when it runs alone.                              *)
C18_ReadersDoNotInterfere ==
    /\ [][cashFlows' = cashFlows]_vars
    /\ [](\A p \in Procs : workers[p].pc = "done" => workers[p].out \in Alone(p, before))

C18_Witness ==
    /\ Len(cashFlows) = 2 /\ ~IsSorted(cashFlows)
    /\ workers[1].op = "NPV" /\ workers[2].op = "IRR"
    /\ \A p \in Procs : workers[p].pc = "done" /\ workers[p].mixed
    /\ workers[2].out.kind = "ok"

\* the days of the calendar year y, counted month by month
CalendarDays(y) == daysBefore(y, 12) + daysIn(y, 12)

RECURSIVE Advanced(_, _, _)
\* a moved on by whole calendar years, one at a time, while that does not pass b:
\* where it ends, and after how many years
Advanced(a, b, n) ==
    IF After(AddDate(a, 1), b) THEN [a |-> a, n |-> n]
    ELSE Advanced(AddDate(a, 1), b, n + 1)

\* n + rem / days, rem being the days from the advanced a to b
YearsAndFraction(adv, b, days) ==
    FAdd(FInt(adv.n), FDiv(FDiv(Hours(Sub(b, adv.a)), FInt(24)), FInt(days)))

(* C20: for a before b, yearsBetween(a, b) = n + rem / daysInYear(Y): n is  *)
(* the number of one-calendar-year advances of a that do not pass b, rem    *)
(* the days from the advanced a to b, Y the year of the advanced a; and     *)
(* daysInYear(y) is 366 exactly when y is divisible by 4 and not by 100,   *)
(* or by 400, else 365.                                                     *)
C20_YearsAndFraction ==
    /\ \A y \in Years \cup {1900, 2000, 2100} :
           /\ daysInYear(y) \in {365, 366}
           /\ daysInYear(y) = 366 <=> ((y % 4 = 0 /\ y % 100 # 0) \/ y % 400 = 0)
           /\ daysInYear(y) = CalendarDays(y)
    /\ (yb.pc = "out" /\ Before(yb.a, yb.b)) =>
           yb.res = YearsAndFraction(Advanced(yb.a, yb.b, 0), yb.b,
                                     CalendarDays(Advanced(yb.a, yb.b, 0).a.y))

\* 2023-03-15 to 2026-02-10 gives 2 + 332/365
C20_Witness ==
    /\ yb.pc = "out" /\ yb.a = Date(2023, 3, 15, 0) /\ yb.b = Date(2026, 2, 10, 0)
    /\ yb.res = FAdd(FInt(2), FDiv(FInt(332), FInt(365)))

\* the days from t to t plus one calendar year
NextYearDays(t) == FDiv(Hours(Sub(AddDate(t, 1), t)), FInt(24))

\* the days from the advanced a to b
Leftover(adv, b) == FDiv(Hours(Sub(b, adv.a)), FInt(24))

(* C21: in yearsBetween the leftover after the whole years is a fraction of *)
(* the length of the next full calendar year, the days from the advanced a  *)
(* to it plus one calendar year; so when b is not reached exactly the       *)
(* fractional part lies between 0 and 1, and for a fixed a the result grows *)
(* with b. The two orderings are stated weakly, so that rounding alone      *)
(* never breaks them.                                                       *)
C21_FractionOfNextYear ==
    (yb.pc = "out" /\ Before(yb.a, yb.b)) =>
        /\ yb.res = FAdd(FInt(Advanced(yb.a, yb.b, 0).n),
                         FDiv(Leftover(Advanced(yb.a, yb.b, 0), yb.b),
                              NextYearDays(Advanced(yb.a, yb.b, 0).a)))
        /\ ~Equal(Advanced(yb.a, yb.b, 0).a, yb.b) =>
               /\ ~FLt(yb.res, FInt(Advanced(yb.a, yb.b, 0).n))
               /\ ~FGt(yb.res, FInt(Advanced(yb.a, yb.b, 0).n + 1))
        /\ \A later \in Instants :
               Before(yb.b, later) => ~FGt(yb.res, yearsBetween(yb.a, later))

\* the earliest Date of a non-empty collection
MinDate(cfs) ==
    CHOOSE d \in {cfs[i].Date : i \in 1 .. Len(cfs)} :
        \A i \in 1 .. Len(cfs) : ~Before(cfs[i].Date, d)

\* the anchor of a sorted copy is the earliest Date, and no flow is before it
AnchoredAtEarliest(cfs, sorted) ==
    /\ sorted[1].Date = MinDate(cfs)
    /\ \A i \in 1 .. Len(sorted) : ~FLt(YearsFrom(sorted[i], sorted[1].Date), Zero)

\* no two flows of cfs share a Date
NoTies(cfs) == \A i, j \in 1 .. Len(cfs) : i # j => ~Equal(cfs[i].Date, cfs[j].Date)

\* IRR, lines 182-195, over a sorted copy: whether a bracket is found, and its
\* upper bound
bracketOutcome(lo, bracket) ==
    [found |-> ~NoSignChange(lo, bracket.npvUpperBound), upper |-> bracket.upperBoundRate]

bracketOf(cfs, lo) ==
    bracketOutcome(lo, bracketLoop(cfs, initialUpperBoundRate, lo,
                                   npvAt(cfs, initialUpperBoundRate)))

bracketOfSorted(cfs) == bracketOf(cfs, npvAt(cfs, lowerBoundRate))

\* a call of IRR on a non-empty collection has returned
Returned == pc = "done" /\ lastOp = "IRR" /\ Len(before) # 0

\* what the call that returned found
bracketReturned == [found |-> result.kind # "bracket", upper |-> upperBoundRate]

\* every order sorting may leave any permutation of cfs in
SortedOrders(cfs) == UNION {SortOutcomes(p) : p \in AnyOrder(cfs)}

(* C22 as stated: the outcome of IRR does not depend on the order of the    *)
(* input: for any permutation of the same collection the anchor is the      *)
(* earliest Date, every flow's year distance from it is >= 0, and the       *)
(* outcome kind and the bracket passed to refinement are the same.          *)
C22_OrderIndependent ==
    Returned =>
        /\ AnchoredAtEarliest(before, ordered)
        /\ \A o \in SortedOrders(before) :
               /\ AnchoredAtEarliest(before, o)
               /\ bracketOfSorted(o) = bracketReturned

(* C22, amended: for any permutation of the same collection the anchor is   *)
(* the earliest Date and every flow's year distance from it is >= 0; the    *)
(* outcome kind and the bracket are the same when no two flows share a Date.*)
C22_OrderIndependentWithoutTies ==
    Returned =>
        /\ AnchoredAtEarliest(before, ordered)
        /\ \A o \in SortedOrders(before) :
               /\ AnchoredAtEarliest(before, o)
               /\ NoTies(before) => bracketOfSorted(o) = bracketReturned

\* a call on three flows of three Dates, given latest first, has found a rate
C22_Witness ==
    /\ Returned /\ result.kind = "ok"
    /\ Len(before) = 3 /\ NoTies(before)
    /\ Before(before[3].Date, before[2].Date) /\ Before(before[2].Date, before[1].Date)
    /\ ordered # before

\* Brent has been invoked by the call of IRR
Refining == lastOp = "IRR" /\ trace.brent # 0

\* the upper bound after k doublings
DoubledUpper(k) == FMul(initialUpperBoundRate, FInt(Pow2(k)))

\* NPV(low) and NPV(high) have opposite signs, or one of them is exactly 0
SignChange(lo, hi) ==
    \/ lo = Zero \/ hi = Zero
    \/ (FLt(lo, Zero) /\ FGt(hi, Zero))
    \/ (FGt(lo, Zero) /\ FLt(hi, Zero))

(* C23: Brent refinement is invoked only in states where the input is       *)
(* non-empty, the lower bound is still -0.999999 (NPV(low) is the value     *)
(* evaluated once, before the loop), the upper bound is 0.10 * 2^k for some *)
(* 0 <= k <= 14, and NPV(low) * NPV(high) <= 0, that is, the two have       *)
(* opposite signs or one is exactly zero; it is never invoked after the     *)
(* empty-input or the bracket failure.                                      *)
C23_BrentOnlyOnBracket ==
    /\ Refining =>
           /\ Len(before) # 0
           /\ npvLowerBound = npvAt(ordered, lowerBoundRate)
           /\ trace.npvs = 2 + trace.doublings
           /\ trace.doublings \in 0 .. MaxDoublings
           /\ upperBoundRate = DoubledUpper(trace.doublings)
           /\ npvUpperBound = npvAt(ordered, upperBoundRate)
           /\ ~FGt(FMul(npvLowerBound, npvUpperBound), Zero)
           /\ ~IsNaN(FMul(npvLowerBound, npvUpperBound))
           /\ SignChange(npvLowerBound, npvUpperBound)
    /\ result.kind \in {"empty", "bracket"} => trace.brent = 0
====
